---- MODULE Spec2Model ----
(***************************************************************************)
(* Model of screen.py, a Streamlit script: every user interaction runs the *)
(* script top to bottom.  One action per section of the script.            *)
(*                                                                         *)
(* Numbers (float64 in the script) are fixed-point integers in units of    *)
(* 1/Scale; a cell of the numeric column is a record [t, v] with           *)
(* t = "num" (a number v), "nan" (np.nan) or "str" (the string "0").       *)
(* A cell of a text column is a string; np.nan in a text column is the     *)
(* marker NaNText.                                                         *)
(***************************************************************************)
EXTENDS Integers, Sequences, FiniteSets, TLC

\* ---------------------------------------------------------------- bounds
MaxRows == 11        \* rows of the largest input file
MaxRuns == 2         \* script executions in one process lifetime

Scale == 100         \* fixed-point unit: 1 hour = Scale

\* ---------------------------------------------------------- column names
Timestamp == "Timestamp"
QAge == "What is your age?"
QWeekday == "On an average weekday, how many hours do you spend looking at screens (computers, smartphones, tablets, TVs, etc.) for non-academic purposes (e.g., entertainment, social media, gaming)?"
QWeekend == "On an average weekend day, how many hours do you spend looking at screens for non-academic purposes?"
QHealth == "Do you experience any of the following health issues due to a prolonged screen time?"
QSleep == "On average, how many hours of sleep do you get on a typical weekday night?"
QEyewear == "Do you use any corrective eyewear? (specs, contact lenses, etc)"
QInteraction == "Has your screen time affected your face-to-face social interactions with friends and family?"

Questions == {QAge, QWeekday, QWeekend, QHealth, QSleep, QEyewear, QInteraction}

\* the columns= mapping of df.rename; a name that is not a key is kept
RenameMap(c) ==
    CASE c = QAge -> "Age"
      [] c = QWeekday -> "ST_Weekday"
      [] c = QWeekend -> "ST_Weekend"
      [] c = QHealth -> "Health_Effects"
      [] c = QSleep -> "Ave_Weekday_Sleep"
      [] c = QEyewear -> "Eyewear_User"
      [] c = QInteraction -> "Interaction_Affects"
      [] OTHER -> c

Sleep == "Ave_Weekday_Sleep"

\* ----------------------------------------------------------------- cells
Num(x) == [t |-> "num", v |-> x]
NaN == [t |-> "nan", v |-> 0]
Str0 == [t |-> "str", v |-> 0]       \* the string '0' in the numeric column
NaNText == "<NaN>"                   \* np.nan in a text column
Empty == ""                          \* an empty field of the file

IsNumericColumn(c) == c \in {QSleep, Sleep}

\* pandas isnull on one cell
IsNull(c, x) == IF IsNumericColumn(c) THEN x.t = "nan" ELSE x = NaNText

\* ----------------------------------------------------------- input files
\* A file is [exists, header, lines]; a line is [blank, cells] with cells a
\* function on the header.  Numeric fields hold Num(x) or EmptyNum, text
\* fields a string or Empty.
EmptyNum == [t |-> "empty", v |-> 0]
EmptyCell(c) == IF IsNumericColumn(c) THEN EmptyNum ELSE Empty

BaseSleep == 5 * Scale               \* the common answer, 5 hours
Outliers == {0, 1 * Scale, 6 * Scale}   \* 0: no deviating answer
RowCounts == {1, 2, MaxRows}
MissKinds == {"none", "sleep", "age", "blank"}
Headers == SUBSET (Questions \cup {Timestamp})

FileCell(c, i, n, outlier, miss) ==
    CASE c = Timestamp -> "2024/01/01"
      [] c = QAge -> IF miss = "age" /\ i = 1 THEN Empty
                     ELSE IF i % 2 = 1 THEN "18-24" ELSE "25-34"
      [] c = QSleep -> IF miss = "sleep" /\ i = 1 THEN EmptyNum
                       ELSE IF outlier # 0 /\ i = n THEN Num(outlier)
                       ELSE Num(BaseSleep)
      [] c = QWeekday -> IF i % 2 = 1 THEN "1-2" ELSE "3-4"
      [] c = QWeekend -> IF i % 3 = 0 THEN "3-4" ELSE "5+"
      [] c = QInteraction -> IF 2 * i <= n + 1 THEN "Yes" ELSE "No"
      [] c = QHealth -> "Eye strain"
      [] c = QEyewear -> "Yes"

DataLine(h, i, n, outlier, miss) ==
    [blank |-> FALSE, cells |-> [c \in h |-> FileCell(c, i, n, outlier, miss)]]
BlankLine(h) == [blank |-> TRUE, cells |-> [c \in h |-> EmptyCell(c)]]

FileLines(h, n, outlier, miss) ==
    LET data == [i \in 1..n |-> DataLine(h, i, n, outlier, miss)]
    IN IF miss = "blank" THEN <<data[1], BlankLine(h)>> \o SubSeq(data, 2, n)
       ELSE data

MissingFile == [exists |-> FALSE, header |-> {}, lines |-> <<>>]

InputFiles ==
    {MissingFile} \cup
    {[exists |-> TRUE, header |-> h, lines |-> FileLines(h, n, o, m)] :
        h \in Headers, n \in RowCounts, o \in Outliers, m \in MissKinds}

\* ---------------------------------------------------------------- loader
\* A table is [cols, rows]: rows is a sequence of functions on cols.
NoTable == [cols |-> {}, rows |-> <<>>]

\* pd.read_csv: blank lines are skipped, empty fields become np.nan
ParseCell(c, x) ==
    IF IsNumericColumn(c) THEN (IF x = EmptyNum THEN NaN ELSE x)
    ELSE (IF x = Empty THEN NaNText ELSE x)

read_csv(f) ==
    LET kept == SelectSeq(f.lines, LAMBDA l : ~l.blank)
    IN [cols |-> f.header,
        rows |-> [i \in 1..Len(kept) |->
                    [c \in f.header |-> ParseCell(c, kept[i].cells[c])]]]

\* df.drop(['Timestamp'], axis=1): defined when the column exists
drop(t, c) ==
    [cols |-> t.cols \ {c},
     rows |-> [i \in 1..Len(t.rows) |-> [d \in t.cols \ {c} |-> t.rows[i][d]]]]

\* df.rename(columns=...)
rename(t) ==
    LET new == {RenameMap(c) : c \in t.cols}
        Old(d) == CHOOSE c \in t.cols : RenameMap(c) = d
    IN [cols |-> new,
        rows |-> [i \in 1..Len(t.rows) |-> [d \in new |-> t.rows[i][Old(d)]]]]

\* faulty variant: NaN is replaced in text columns only
ReplaceCellTextOnly(c, x) ==
    IF IsNumericColumn(c) THEN x
    ELSE (IF x = NaNText THEN "0" ELSE x)
\* df.replace(np.nan, '0') on one cell
ReplaceCell(c, x) ==
    IF IsNumericColumn(c) THEN (IF x.t = "nan" THEN Str0 ELSE x)
    ELSE (IF x = NaNText THEN "0" ELSE x)

\* faulty variant: rows with a missing value are dropped (dropna)
replaceDropping(t) ==
    [cols |-> t.cols,
     rows |-> SelectSeq(t.rows, LAMBDA r : \A c \in t.cols : ~IsNull(c, r[c]))]
\* df.replace(np.nan, '0', inplace=True)
replace(t) ==
    [cols |-> t.cols,
     rows |-> [i \in 1..Len(t.rows) |->
                 [c \in t.cols |-> ReplaceCell(c, t.rows[i][c])]]]

\* the body of load_data, defined when it does not raise
LoadRaises(f) == ~f.exists \/ Timestamp \notin f.header
LoadError(f) == IF ~f.exists THEN "FileNotFoundError" ELSE "KeyError"
load_data_body(f) == replace(rename(drop(read_csv(f), Timestamp)))

\* faulty variant: the cache hands out the stored object itself
ReturnsAlias == FALSE
\* st.cache_data serialises the value it stores and hands every caller a
\* fresh copy, so a caller's in-place change never reaches the stored value
ReturnsCopy == TRUE

\* ------------------------------------------------------------ the output
\* one display call: [call, msg, data]
NoData == "-"
Call(k, m, d) == [call |-> k, msg |-> m, data |-> d]
Labels(o) == [i \in DOMAIN o |-> o[i].msg]

TitleText == "Screen Time and Health Analysis Dashboard"
DescriptionText == "This dashboard provides an analysis of survey data on screen time, sleep patterns, and their impact on health and social interactions."
\* faulty variant: the description is not written
TitleCallsTitleOnly == <<Call("title", TitleText, NoData)>>
\* lines 10-13
TitleCalls == <<Call("title", TitleText, NoData), Call("write", DescriptionText, NoData)>>

\* ----------------------------------------------------------------- state
VARIABLES
    file,      \* the input file, fixed for the process lifetime
    cache,     \* the st.cache_data entry of load_data: [hit, value]
    df,        \* the table of the current run
    pc,        \* the section the current run is about to execute
    out,       \* display calls of the current run, in order
    sec,       \* the same calls by section of the script
    err,       \* the exception that ended the current run, "" if none
    runs,      \* script executions started so far
    loads,     \* times the body of load_data built a table
    clamps,    \* runs whose line 101 changed a cell of the run's table
    pre,       \* the table as it entered the outlier section of this run
    lim        \* avg_sleep, std_dev, upper_limit, lower_limit of this run

vars == <<file, cache, df, pc, out, sec, err, runs, loads, clamps, pre, lim>>

Sections == {"title", "show", "info", "basic", "nulls", "corr", "outlier",
             "grouped", "filtered", "weekday", "weekend"}

NoLim == [avg |-> NaN, std |-> NaN, upper |-> NaN, lower |-> NaN]

Init ==
    /\ file \in InputFiles
    /\ cache = [hit |-> FALSE, value |-> NoTable]
    /\ df = NoTable
    /\ pc = "idle"
    /\ out = <<>>
    /\ sec = [s \in Sections |-> <<>>]
    /\ err = ""
    /\ runs = 0
    /\ loads = 0
    /\ clamps = 0
    /\ pre = NoTable
    /\ lim = NoLim

\* the display calls of section s
Say(s, calls) ==
    /\ out' = out \o calls
    /\ sec' = [sec EXCEPT ![s] = calls]

\* a user interaction (or the first page load) starts a fresh execution
StartRun ==
    /\ pc \in {"idle", "done", "failed"}
    /\ runs < MaxRuns
    /\ runs' = runs + 1
    /\ pc' = "title"
    /\ out' = <<>>
    /\ sec' = [s \in Sections |-> <<>>]
    /\ err' = ""
    /\ df' = NoTable
    /\ pre' = NoTable
    /\ lim' = NoLim
    /\ UNCHANGED <<file, cache, loads, clamps>>

\* lines 10-13
Title ==
    /\ pc = "title"
    /\ Say("title", TitleCalls)
    /\ pc' = "load"
    /\ UNCHANGED <<file, cache, df, err, runs, loads, clamps, pre, lim>>

\* line 40, cache hit: the body is not executed
LoadHit ==
    /\ pc = "load"
    /\ cache.hit
    /\ df' = cache.value
    /\ pc' = "show"
    /\ UNCHANGED <<file, cache, out, sec, err, runs, loads, clamps, pre, lim>>

\* line 40, cache miss: the body runs and its result is stored
LoadMiss ==
    /\ pc = "load"
    /\ ~cache.hit
    /\ ~LoadRaises(file)
    /\ df' = load_data_body(file)
    /\ cache' = [hit |-> TRUE, value |-> load_data_body(file)]
    /\ loads' = loads + 1
    /\ pc' = "show"
    /\ UNCHANGED <<file, out, sec, err, runs, clamps, pre, lim>>

\* line 40, cache miss and the body raises: nothing is stored, the run ends
LoadFail ==
    /\ pc = "load"
    /\ ~cache.hit
    /\ LoadRaises(file)
    /\ err' = LoadError(file)
    /\ pc' = "failed"
    /\ UNCHANGED <<file, cache, df, out, sec, runs, loads, clamps, pre, lim>>

\* -------------------------------------------------- descriptive sections
Min2(a, b) == IF a < b THEN a ELSE b
Column(t, c) == [i \in 1..Len(t.rows) |-> t.rows[i][c]]
head(rows, k) == SubSeq(rows, 1, Min2(k, Len(rows)))

\* df.isnull().sum(): the number of missing cells of every column
isnull_sum(t) ==
    [c \in t.cols |-> Cardinality({i \in 1..Len(t.rows) : IsNull(c, t.rows[i][c])})]

\* lines 43-44: the checkbox is the one input of a run
ShowRaw ==
    /\ pc = "show"
    /\ \E checked \in BOOLEAN :
         Say("show", IF checked THEN <<Call("write", "head", head(df.rows, 10))>>
                                ELSE <<>>)
    /\ pc' = "info"
    /\ UNCHANGED <<file, cache, df, err, runs, loads, clamps, pre, lim>>

\* lines 47-51
DataInformation ==
    /\ pc = "info"
    /\ Say("info", <<Call("subheader", "Data Information", NoData),
                          Call("write", "Number of rows: ", Len(df.rows)),
                          Call("write", "Number of columns: ", Cardinality(df.cols)),
                          Call("write", "Columns:", NoData),
                          Call("write", "columns", df.cols)>>)
    /\ pc' = "basic"
    /\ UNCHANGED <<file, cache, df, err, runs, loads, clamps, pre, lim>>

\* lines 54-61: df.info() and df.describe()
BasicInformation ==
    /\ pc = "basic"
    /\ Say("basic", <<Call("subheader", "Basic Information", NoData),
                          Call("text", "info", NoData),
                          Call("subheader", "Statistical Summary", NoData),
                          Call("write", "describe", NoData)>>)
    /\ pc' = "nulls"
    /\ UNCHANGED <<file, cache, df, err, runs, loads, clamps, pre, lim>>

\* lines 64-65
NullValues ==
    /\ pc = "nulls"
    /\ Say("nulls", <<Call("subheader", "Null Values", NoData),
                          Call("write", "isnull", isnull_sum(df))>>)
    /\ pc' = "corr"
    /\ UNCHANGED <<file, cache, df, err, runs, loads, clamps, pre, lim>>

\* lines 68-74
CorrelationAnalysis ==
    /\ pc = "corr"
    /\ Say("corr", <<Call("subheader", "Correlation Analysis", NoData),
                          Call("write", "corr", NoData),
                          Call("pyplot", "heatmap", NoData)>>)
    /\ pc' = "outlier"
    /\ UNCHANGED <<file, cache, df, err, runs, loads, clamps, pre, lim>>

\* ------------------------------------------------------ numeric helpers
RECURSIVE SumV(_)
SumV(s) == IF s = <<>> THEN 0 ELSE Head(s).v + SumV(Tail(s))
RECURSIVE SumSq(_)
SumSq(s) == IF s = <<>> THEN 0 ELSE Head(s).v * Head(s).v + SumSq(Tail(s))

\* floor of the square root, by bisection on lo..hi
RECURSIVE IsqrtIn(_, _, _)
IsqrtIn(x, lo, hi) ==
    IF lo = hi THEN lo
    ELSE LET mid == (lo + hi + 1) \div 2
         IN IF mid * mid <= x THEN IsqrtIn(x, mid, hi) ELSE IsqrtIn(x, lo, mid - 1)
Isqrt(x) == IsqrtIn(x, 0, 24 * Scale)    \* a deviation of hours in a day

\* faulty variant: the string '0' is summed as the number 0
AllNumericLax(col) == \A i \in DOMAIN col : col[i].t \in {"num", "str"}
\* lines 87-90: mean() and std() raise TypeError on a column that holds a
\* string (pandas 2)
AllNumeric(col) == \A i \in DOMAIN col : col[i].t = "num"

\* Series.mean() of a numeric column
mean(col) ==
    IF Len(col) = 0 THEN NaN ELSE Num(SumV(col) \div Len(col))

\* Series.std() of a numeric column: sample deviation (ddof = 1), NaN when
\* there are fewer than two values
std(col) ==
    LET n == Len(col)
    IN IF n < 2 THEN NaN
       ELSE Num(Isqrt((n * SumSq(col) - SumV(col) * SumV(col)) \div (n * (n - 1))))

\* float arithmetic and comparison; anything with NaN is NaN, resp. False
Plus3(a, b) == IF a.t = "num" /\ b.t = "num" THEN Num(a.v + 3 * b.v) ELSE NaN
Minus3(a, b) == IF a.t = "num" /\ b.t = "num" THEN Num(a.v - 3 * b.v) ELSE NaN
GE(a, b) == a.t = "num" /\ b.t = "num" /\ a.v >= b.v
LT(a, b) == a.t = "num" /\ b.t = "num" /\ a.v < b.v

\* Series.min() / Series.max() of a non-empty numeric column
min_(col) == CHOOSE x \in {col[i] : i \in DOMAIN col} : \A j \in DOMAIN col : x.v <= col[j].v
max_(col) == CHOOSE x \in {col[i] : i \in DOMAIN col} : \A j \in DOMAIN col : x.v >= col[j].v

\* lines 87-92
Limits(col) ==
    [avg |-> mean(col), std |-> std(col),
     upper |-> Plus3(mean(col), std(col)),
     lower |-> Minus3(mean(col), std(col))]

\* faulty variant: the comparison is the wrong way round
ClampCellFlipped(x, upper) == IF GE(upper, x) THEN upper ELSE x
\* line 101 on one cell
ClampCell(x, upper) == IF GE(x, upper) THEN upper ELSE x

\* faulty variant: rows at or above the limit are removed
ClampTableDropping(t, upper) ==
    [t EXCEPT !.rows = SelectSeq(t.rows, LAMBDA r : ~GE(r[Sleep], upper))]
\* line 101: df.loc[df[col] >= upper_limit, col] = upper_limit
ClampTable(t, upper) ==
    [t EXCEPT !.rows = [i \in 1..Len(t.rows) |->
        [t.rows[i] EXCEPT ![Sleep] = ClampCell(t.rows[i][Sleep], upper)]]]

\* -------------------------------------------------------- outlier section
OutlierHeader == "Outlier Analysis - Weekday Sleep"
OutlierHead(t) ==
    <<Call("subheader", OutlierHeader, NoData),
      Call("write", "Columns in DataFrame:", t.cols)>>

MsgNoSleep == "Column 'Ave_Weekday_Sleep' does not exist in the DataFrame."

\* lines 77-80, 105-106: the column is absent
OutlierMissing ==
    /\ pc = "outlier"
    /\ Sleep \notin df.cols
    /\ Say("outlier", OutlierHead(df) \o <<Call("write", MsgNoSleep, NoData)>>)
    /\ pre' = df
    /\ pc' = "grouped"
    /\ UNCHANGED <<file, cache, df, err, runs, loads, clamps, lim>>

\* lines 77-87: the column holds a string, so summing it raises TypeError;
\* whether seaborn has drawn the first boxplot by then is left open
OutlierTypeError ==
    /\ pc = "outlier"
    /\ Sleep \in df.cols
    /\ ~AllNumeric(Column(df, Sleep))
    /\ \E drawn \in BOOLEAN :
         Say("outlier", OutlierHead(df) \o
                  (IF drawn THEN <<Call("pyplot", "boxplot", NoData)>> ELSE <<>>))
    /\ pre' = df
    /\ err' = "TypeError"
    /\ pc' = "failed"
    /\ UNCHANGED <<file, cache, df, runs, loads, clamps, lim>>

\* lines 77-104: the column is numeric
OutlierClamp ==
    /\ pc = "outlier"
    /\ Sleep \in df.cols
    /\ AllNumeric(Column(df, Sleep))
    /\ LET col == Column(df, Sleep)
           l == Limits(col)
           new == ClampTable(df, l.upper)
       IN /\ lim' = l
          /\ df' = new
          /\ cache' = IF ReturnsCopy THEN cache ELSE [cache EXCEPT !.value = new]
          /\ clamps' = IF new # df THEN clamps + 1 ELSE clamps
          /\ Say("outlier", OutlierHead(df) \o
               <<Call("pyplot", "boxplot", NoData),
                 Call("write", "The Average weekday sleep of the respondents was found to be: ", l.avg),
                 Call("write", "The Minimum weekday sleep of the respondents was found to be: ", min_(col)),
                 Call("write", "The Maximum weekday sleep of the respondents was found to be: ", max_(col)),
                 Call("write", "Upper limit for outliers: ", l.upper),
                 Call("write", "Lower limit for outliers: ", l.lower),
                 Call("pyplot", "boxplot", NoData)>>)
    /\ pre' = df
    /\ pc' = "grouped"
    /\ UNCHANGED <<file, err, runs, loads>>

\* ------------------------------------------------------ grouped section
\* df.groupby('Age')['Ave_Weekday_Sleep'].mean()
GroupMeans(t) ==
    LET keys == {t.rows[i]["Age"] : i \in 1..Len(t.rows)}
        Group(k) == SelectSeq(t.rows, LAMBDA r : r["Age"] = k)
    IN [k \in keys |-> mean([i \in 1..Len(Group(k)) |-> Group(k)[i][Sleep]])]

GroupedHeader == "Average Weekday Sleep by Age Group"
MsgNoAgeSleep == "Columns 'Age' and/or 'Ave_Weekday_Sleep' do not exist in the DataFrame."

\* faulty variant: the section is skipped without a message
GroupedCallsSilent(t) ==
    <<Call("subheader", GroupedHeader, NoData)>> \o
    (IF "Age" \in t.cols /\ Sleep \in t.cols
     THEN <<Call("pyplot", GroupedHeader, GroupMeans(t))>>
     ELSE <<>>)

\* lines 109-120
GroupedCalls(t) ==
    <<Call("subheader", GroupedHeader, NoData)>> \o
    (IF "Age" \in t.cols /\ Sleep \in t.cols
     THEN <<Call("pyplot", GroupedHeader, GroupMeans(t))>>
     ELSE <<Call("write", MsgNoAgeSleep, NoData)>>)

\* lines 109-120
GroupedAggregation ==
    /\ pc = "grouped"
    /\ Say("grouped", GroupedCalls(df))
    /\ pc' = "filtered"
    /\ UNCHANGED <<file, cache, df, err, runs, loads, clamps, pre, lim>>

\* ----------------------------------------------------- filtered section
SixHours == 6 * Scale
FilteredHeader == "Respondents with Less than 6 Hours of Weekday Sleep"
SubReportText == "Health issues, eyewear use, and social interaction of such respondents"
ScatterHeader == "Impact of Sleep Time on Health Issues"
SubReportColumns == {"Health_Effects", "Eyewear_User", "Interaction_Affects"}

\* line 125: df[df['Ave_Weekday_Sleep'] < 6]
Filtered(t) == SelectSeq(t.rows, LAMBDA r : LT(r[Sleep], Num(SixHours)))

Project(rows, cs) == [i \in 1..Len(rows) |-> [c \in cs |-> rows[i][c]]]

MsgNoSubReport == "One or more of the columns 'Health_Effects', 'Eyewear_User', 'Interaction_Affects' do not exist in the DataFrame."
MsgNoHealth == "Column 'Health_Effects' does not exist in the DataFrame."

\* lines 128-132
SubReportCalls(t) ==
    <<Call("write", SubReportText, NoData)>> \o
    (IF SubReportColumns \subseteq t.cols
     THEN <<Call("write", "head", head(Project(Filtered(t), SubReportColumns), 5))>>
     ELSE <<Call("write", MsgNoSubReport, NoData)>>)

\* faulty variant: the fallback names the wrong column
ScatterCallsWrongMessage(t) ==
    <<Call("subheader", ScatterHeader, NoData)>> \o
    (IF "Health_Effects" \in t.cols
     THEN <<Call("pyplot", ScatterHeader,
                 Project(Filtered(t), {Sleep, "Health_Effects"}))>>
     ELSE <<Call("write", MsgNoSleep, NoData)>>)

\* lines 135-145
ScatterCalls(t) ==
    <<Call("subheader", ScatterHeader, NoData)>> \o
    (IF "Health_Effects" \in t.cols
     THEN <<Call("pyplot", ScatterHeader,
                 Project(Filtered(t), {Sleep, "Health_Effects"}))>>
     ELSE <<Call("write", MsgNoHealth, NoData)>>)

\* lines 123-147
FilteredCalls(t) ==
    <<Call("subheader", FilteredHeader, NoData)>> \o
    (IF Sleep \in t.cols
     THEN <<Call("write", "head", head(Filtered(t), 5))>> \o SubReportCalls(t) \o ScatterCalls(t)
     ELSE <<Call("write", MsgNoSleep, NoData)>>)

FilteredReport ==
    /\ pc = "filtered"
    /\ Say("filtered", FilteredCalls(df))
    /\ pc' = "weekday"
    /\ UNCHANGED <<file, cache, df, err, runs, loads, clamps, pre, lim>>

\* ----------------------------------------------------- association tests
\* p-values are fixed-point in units of 1/1000
Alpha == 50
PValues == {49, 50, 51}
POne == 1000

\* pd.crosstab(df[a], df[b]): the count of every pair of observed levels
crosstab(t, a, b) ==
    LET A == {t.rows[i][a] : i \in 1..Len(t.rows)}
        B == {t.rows[i][b] : i \in 1..Len(t.rows)}
    IN [xy \in A \X B |->
          Cardinality({i \in 1..Len(t.rows) : t.rows[i][a] = xy[1] /\ t.rows[i][b] = xy[2]})]

Dof(t, a, b) ==
    (Cardinality({t.rows[i][a] : i \in 1..Len(t.rows)}) - 1) *
    (Cardinality({t.rows[i][b] : i \in 1..Len(t.rows)}) - 1)

\* the p-values chi2_contingency can return: 1.0 when the table has no
\* degree of freedom, any value otherwise
ChiPValues(t, a, b) == IF Dof(t, a, b) = 0 THEN {POne} ELSE PValues

\* faulty variant: p = 0.05 counts as significant
IsSignificantLax(p) == p <= Alpha
\* lines 155, 168
IsSignificant(p) == p < Alpha

MsgSig(day) == IF day = "weekday"
    THEN "There is a significant association between average weekday screentime and social interaction."
    ELSE "There is a significant association between average weekend screentime and social interaction."
MsgNoSig(day) == IF day = "weekday"
    THEN "There is no significant association between average weekday screentime and social interaction."
    ELSE "There is no significant association between average weekend screentime and social interaction."
MsgNoChi(day) == IF day = "weekday"
    THEN "Columns 'ST_Weekday' and/or 'Interaction_Affects' do not exist in the DataFrame."
    ELSE "Columns 'ST_Weekend' and/or 'Interaction_Affects' do not exist in the DataFrame."
ChiHeader(day) == IF day = "weekday"
    THEN "Impact of Screentime on Social Interaction (Weekday)"
    ELSE "Impact of Screentime on Social Interaction (Weekend)"
ChiColumn(day) == IF day = "weekday" THEN "ST_Weekday" ELSE "ST_Weekend"

ChiGuard(t, day) == ChiColumn(day) \in t.cols /\ "Interaction_Affects" \in t.cols

\* the calls of one test, given the p-value the library returned
ChiCalls(t, day, p) ==
    <<Call("subheader", ChiHeader(day), NoData)>> \o
    (IF ChiGuard(t, day)
     THEN <<Call("write", "p-value is: ", p),
            Call("write", IF IsSignificant(p) THEN MsgSig(day) ELSE MsgNoSig(day), NoData)>>
     ELSE <<Call("write", MsgNoChi(day), NoData)>>)

ChiSquare(day, next) ==
    /\ \E p \in (IF ChiGuard(df, day)
                 THEN ChiPValues(df, ChiColumn(day), "Interaction_Affects")
                 ELSE {POne}) :
         Say(day, ChiCalls(df, day, p))
    /\ pc' = next
    /\ UNCHANGED <<file, cache, df, err, runs, loads, clamps, pre, lim>>

\* lines 150-160
ChiSquareWeekday == pc = "weekday" /\ ChiSquare("weekday", "weekend")

\* lines 163-173
ChiSquareWeekend == pc = "weekend" /\ ChiSquare("weekend", "done")

Next ==
    \/ StartRun
    \/ Title
    \/ LoadHit
    \/ LoadMiss
    \/ LoadFail
    \/ ShowRaw
    \/ DataInformation
    \/ BasicInformation
    \/ NullValues
    \/ CorrelationAnalysis
    \/ OutlierMissing
    \/ OutlierTypeError
    \/ OutlierClamp
    \/ GroupedAggregation
    \/ FilteredReport
    \/ ChiSquareWeekday
    \/ ChiSquareWeekend

Spec == Init /\ [][Next]_vars

TypeOK ==
    /\ pc \in {"idle", "title", "load", "show", "info", "basic", "nulls", "corr",
               "outlier", "grouped", "filtered", "weekday", "weekend", "done", "failed"}
    /\ runs \in 0..MaxRuns
    /\ loads \in 0..MaxRuns
    /\ clamps \in 0..MaxRuns

\* ============================================================ properties
Ran(s) == Len(sec[s]) > 0
AfterOutlier == pc \in {"grouped", "filtered", "weekday", "weekend", "done"}
LoaderFailed == pc = "failed" /\ err \in {"FileNotFoundError", "KeyError"}
Loaded == pc \in {"show", "info", "basic", "nulls", "corr", "outlier", "grouped",
                  "filtered", "weekday", "weekend", "done"}
          \/ (pc = "failed" /\ err = "TypeError")

DataLines(f) == SelectSeq(f.lines, LAMBDA l : ~l.blank)
Long(c) == CHOOSE q \in file.header : RenameMap(q) = c
FileCellOf(i, c) == DataLines(file)[i].cells[Long(c)]
ZeroString(c) == IF IsNumericColumn(c) THEN Str0 ELSE "0"

\* Python's min(v, upper): upper when upper < v, else v
MinPy(v, upper) == IF LT(upper, v) THEN upper ELSE v

\* C1: after the outlier section every value of Ave_Weekday_Sleep is
\* min(v, upper) with v the value before the section and upper = mean + 3*std
\* of the column before the section; a value below lower = mean - 3*std is
\* left as it was.
OutlierClampIsMin ==
    (AfterOutlier /\ Sleep \in df.cols) =>
        /\ lim = Limits(Column(pre, Sleep))
        /\ lim.upper = Plus3(mean(Column(pre, Sleep)), std(Column(pre, Sleep)))
        /\ Len(df.rows) = Len(pre.rows)
        /\ \A i \in 1..Len(pre.rows) :
             /\ df.rows[i][Sleep] = MinPy(pre.rows[i][Sleep], lim.upper)
             /\ LT(pre.rows[i][Sleep], lim.lower) => df.rows[i][Sleep] = pre.rows[i][Sleep]

\* a run in which a value above the upper limit was capped
OutlierClampIsMinWitness ==
    /\ AfterOutlier /\ Sleep \in df.cols
    /\ \E i \in 1..Len(pre.rows) :
         /\ LT(lim.upper, pre.rows[i][Sleep])
         /\ df.rows[i][Sleep] = lim.upper

\* C2: once load_data has returned no cell of the table is missing, every
\* cell that was empty in the file holds the string "0", and the Null Values
\* section reports zero for every column.
NoMissingAfterLoad ==
    Loaded =>
        /\ \A i \in 1..Len(df.rows) : \A c \in df.cols :
             /\ ~IsNull(c, df.rows[i][c])
             /\ FileCellOf(i, c) = EmptyCell(c) => df.rows[i][c] = ZeroString(c)
        /\ Ran("nulls") => \A c \in df.cols : sec["nulls"][2].data[c] = 0

\* the null counts were shown for a file with an empty numeric field
NoMissingAfterLoadWitness ==
    /\ Loaded /\ Ran("nulls")
    /\ Sleep \in df.cols
    /\ \E i \in 1..Len(df.rows) :
         FileCellOf(i, Sleep) = EmptyNum /\ df.rows[i][Sleep] = Str0

\* C6: the table load_data returns (and the run works on) has one row per
\* data line of the file, in the file's order, whatever cells are empty.
RowCountPreserved ==
    Loaded =>
        /\ Len(df.rows) = Cardinality({i \in DOMAIN file.lines : ~file.lines[i].blank})
        /\ df.cols = {RenameMap(c) : c \in file.header \ {Timestamp}}
        /\ Len(cache.value.rows) = Len(df.rows)
        /\ \A i \in 1..Len(df.rows) : \A c \in df.cols :
             FileCellOf(i, c) # EmptyCell(c) => cache.value.rows[i][c] = FileCellOf(i, c)

\* a loaded table of several rows, one of which had an empty field
RowCountPreservedWitness ==
    /\ Loaded
    /\ Len(df.rows) = MaxRows
    /\ \E i \in 1..Len(df.rows) : \E c \in df.cols : FileCellOf(i, c) = EmptyCell(c)

ChiDays == {"weekday", "weekend"}
ClassMessages == {MsgSig(d) : d \in ChiDays} \cup {MsgNoSig(d) : d \in ChiDays}

\* C5: an association test whose columns are present shows the p-value and
\* then exactly one classification: "significant" iff p < 0.05, so p = 0.05
\* is classified as not significant.
ChiClassification ==
    \A d \in ChiDays :
        (Ran(d) /\ ChiGuard(df, d)) =>
            LET p == sec[d][2].data
            IN /\ Len(sec[d]) = 3
               /\ sec[d][2].msg = "p-value is: "
               /\ sec[d][3].msg = IF p < Alpha THEN MsgSig(d) ELSE MsgNoSig(d)
               /\ \A i \in 1..2 : sec[d][i].msg \notin ClassMessages

\* a test that returned exactly 0.05 and was reported as not significant
ChiClassificationWitness ==
    \E d \in ChiDays :
        /\ Ran(d) /\ ChiGuard(df, d)
        /\ sec[d][2].data = Alpha
        /\ sec[d][3].msg = MsgNoSig(d)

\* C8 as stated: when load_data fails, no display call has preceded it.
LoaderFailureBeforeAnyOutput == LoaderFailed => Len(out) = 0

\* C8 amended: when load_data fails, exactly the title and the description
\* (lines 10-13) have been displayed, and nothing else.
LoaderFailureAfterTitleOnly ==
    LoaderFailed =>
        /\ Labels(out) = <<TitleText, DescriptionText>>
        /\ \A s \in Sections \ {"title"} : ~Ran(s)
        /\ ~cache.hit

\* a run that ended because the file does not exist
LoaderFailureAfterTitleOnlyWitness ==
    pc = "failed" /\ err = "FileNotFoundError" /\ Len(out) = 2

\* C9 as stated: over all re-executions the table is built once and is
\* mutated in place once.
TableBuiltOnceMutatedOnce == loads <= 1 /\ clamps <= 1

\* C9 amended: the body of load_data builds the table at most once and no
\* run ever changes the cached table; every run clamps the copy it was given.
CacheBuiltOnceNeverMutated ==
    [][/\ loads' <= 1
       /\ cache.hit => cache' = cache
       /\ (cache'.hit /\ ~cache.hit) => loads' = loads + 1]_vars

\* a second run has clamped its own copy and the cached table still holds
\* the value that was capped
CacheBuiltOnceNeverMutatedWitness ==
    /\ runs = 2 /\ loads = 1 /\ clamps = 2
    /\ cache.hit /\ df # cache.value

LaterSections == {"grouped", "filtered", "weekday", "weekend"}
HasString(t) ==
    Sleep \in t.cols /\ \E i \in 1..Len(t.rows) : t.rows[i][Sleep] = Str0

\* C10: when Ave_Weekday_Sleep holds a non-numeric cell after loading, the
\* outlier section ends the run with a TypeError: the cell is not turned
\* into a number, the table is not clamped, and no later section shows
\* anything.
TypeErrorEndsRun ==
    (Loaded /\ HasString(df) /\ Ran("outlier")) =>
        /\ pc = "failed"
        /\ err = "TypeError"
        /\ df = pre
        /\ df = cache.value
        /\ lim = NoLim
        /\ \A s \in LaterSections : ~Ran(s)

\* a run that ended in the outlier section on the string "0"
TypeErrorEndsRunWitness ==
    pc = "failed" /\ err = "TypeError" /\ HasString(df) /\ Ran("outlier")


\* C3 as stated: when Health_Effects is absent the sub-report and the
\* scatter plot each show their fallback message naming the column, whatever
\* other columns are present or absent.
HealthAbsentFallbackAlways ==
    (Ran("filtered") /\ "Health_Effects" \notin df.cols) =>
        /\ \E i \in DOMAIN sec["filtered"] : sec["filtered"][i].msg = MsgNoSubReport
        /\ \E i \in DOMAIN sec["filtered"] : sec["filtered"][i].msg = MsgNoHealth

\* C3 amended: when Health_Effects is absent the section does not raise; if
\* Ave_Weekday_Sleep is present the sub-report and the scatter plot each
\* show their fallback message naming Health_Effects, and if it is absent
\* too the section shows only the message naming Ave_Weekday_Sleep.
HealthAbsentFallback ==
    (Ran("filtered") /\ "Health_Effects" \notin df.cols) =>
        /\ pc \in {"weekday", "weekend", "done"}
        /\ err = ""
        /\ Labels(sec["filtered"]) =
             IF Sleep \in df.cols
             THEN <<FilteredHeader, "head", SubReportText, MsgNoSubReport,
                    ScatterHeader, MsgNoHealth>>
             ELSE <<FilteredHeader, MsgNoSleep>>

\* the section ran on a table with the sleep column and without
\* Health_Effects
HealthAbsentFallbackWitness ==
    /\ Ran("filtered")
    /\ "Health_Effects" \notin df.cols
    /\ Sleep \in df.cols
    /\ Len(sec["filtered"]) = 6

GuardedSections == {"outlier", "grouped", "filtered", "weekday", "weekend"}

ShortColumns == {RenameMap(q) : q \in Questions}

\* the table t with the absent column c added
WithColumn(t, c) ==
    [cols |-> t.cols \cup {c},
     rows |-> [i \in 1..Len(t.rows) |->
                 [d \in t.cols \cup {c} |->
                    IF d # c THEN t.rows[i][d]
                    ELSE IF IsNumericColumn(c) THEN Num(BaseSleep) ELSE "Yes"]]]

\* what the sections that do not read c show for t is what they would show
\* were c present (a table of whole rows then has the one column more)
SameWithColumn(t, c) ==
    LET T == WithColumn(t, c)
    IN /\ c \notin {"Age", Sleep} => GroupedCalls(T) = GroupedCalls(t)
       /\ (c # Sleep /\ Sleep \in t.cols) =>
             Project(head(Filtered(T), 5), t.cols) = head(Filtered(t), 5)
       /\ (c \notin SubReportColumns \cup {Sleep} /\ Sleep \in t.cols) =>
             SubReportCalls(T) = SubReportCalls(t)
       /\ (c \notin {"Health_Effects", Sleep} /\ Sleep \in t.cols) =>
             ScatterCalls(T) = ScatterCalls(t)
       /\ \A d \in ChiDays : c \notin {ChiColumn(d), "Interaction_Affects"} =>
             /\ ChiGuard(T, d) = ChiGuard(t, d)
             /\ ChiGuard(t, d) =>
                   crosstab(T, ChiColumn(d), "Interaction_Affects")
                     = crosstab(t, ChiColumn(d), "Interaction_Affects")
             /\ \A p \in PValues \cup {POne} : ChiCalls(T, d, p) = ChiCalls(t, d, p)

ClampAffectsNothingDownstream ==
    /\ (Ran("grouped") /\ {"Age", Sleep} \subseteq df.cols) =>
          sec["grouped"][2].data = GroupMeans(pre)
    /\ (Ran("filtered") /\ Sleep \in df.cols) =>
          sec["filtered"][2].data = head(Filtered(pre), 5)
    /\ \A d \in ChiDays : (Ran(d) /\ ChiGuard(df, d)) =>
          crosstab(df, ChiColumn(d), "Interaction_Affects")
            = crosstab(pre, ChiColumn(d), "Interaction_Affects")

\* C7 amended: the clamp changes Ave_Weekday_Sleep only, so the two
\* association tests get the contingency tables of the unclamped table;
\* the grouped mean, the sleep < 6 filter and the scatter plot read the
\* clamped column.
ClampChangesOnlySleepColumn ==
    AfterOutlier =>
        /\ Len(df.rows) = Len(pre.rows)
        /\ df.cols = pre.cols
        /\ \A i \in 1..Len(pre.rows) : \A c \in df.cols \ {Sleep} :
             df.rows[i][c] = pre.rows[i][c]
        /\ \A d \in ChiDays : ChiGuard(df, d) =>
             /\ crosstab(df, ChiColumn(d), "Interaction_Affects")
                  = crosstab(pre, ChiColumn(d), "Interaction_Affects")
             /\ ChiPValues(df, ChiColumn(d), "Interaction_Affects")
                  = ChiPValues(pre, ChiColumn(d), "Interaction_Affects")

\* both tests ran after a clamp that changed the grouped means
ClampChangesOnlySleepColumnWitness ==
    /\ pc = "done"
    /\ df # pre
    /\ ChiGuard(df, "weekday") /\ ChiGuard(df, "weekend")
    /\ "Age" \in df.cols
    /\ GroupMeans(df) # GroupMeans(pre)
    /\ sec["grouped"][2].data = GroupMeans(df)

====
